---------------------------- MODULE Spec2Model ----------------------------
(***************************************************************************)
(* A model of django_typescript's ModelTypeSerializer (the field registry, *)
(* the validator binding, the decode hook `validate`, the prefetch tree    *)
(* expansion) and of ObjectTypeTranspiler.field_type_declarations.         *)
(*                                                                         *)
(* Python values are modelled as follows.                                  *)
(*   - an insertion-ordered dict is a sequence of <<key, value>> pairs     *)
(*     with distinct keys (DictSet keeps the position of an existing key); *)
(*   - a keyword-argument dict is a function from option names to values   *)
(*     (its order is never observed);                                      *)
(*   - None, a scalar and a model instance are records of one shape        *)
(*     (NoneVal, Scalar(n), Entity(model, pk)).                            *)
(***************************************************************************)
EXTENDS Naturals, Sequences, FiniteSets, TLC

VARIABLES
    model_pool,   \* the ORM's model declarations: model name -> declaration
    store,        \* the storage layer: model name -> set of existing pks
    marshallers,  \* the ModelTypeSerializer instances construction returned
    outcome       \* what the last call did (construct, validate, expand, project)

vars == <<model_pool, store, marshallers, outcome>>

--------------------------------------------------------------------------
(* Bounds of the model.                                                    *)

\* the number of fields a generated model declares besides its primary key
MaxFields == 2
\* primary keys range over 1..MaxPk
MaxPk == 2
\* the number of entries of a prefetch list
MaxTrees == 2
\* the depth to which the mappings of a prefetch tree nest
MaxDepth == 1

--------------------------------------------------------------------------
(* Python values.                                                          *)

NoneVal == [kind |-> "None", model |-> "", v |-> 0]
Scalar(n) == [kind |-> "scalar", model |-> "", v |-> n]
Entity(model, pk) == [kind |-> "instance", model |-> model, v |-> pk]

\* d[k] = v on an insertion-ordered dict
DictSet(d, k, v) ==
    IF \E i \in 1..Len(d) : d[i][1] = k
    THEN [i \in 1..Len(d) |-> IF d[i][1] = k THEN <<k, v>> ELSE d[i]]
    ELSE Append(d, <<k, v>>)

\* list(d.keys())
DictKeys(d) == [i \in 1..Len(d) |-> d[i][1]]

\* k in d
DictHas(d, k) == \E i \in 1..Len(d) : d[i][1] = k

\* d[k]
DictGet(d, k) == d[CHOOSE i \in 1..Len(d) : d[i][1] = k][2]

\* list(d.values())
DictValues(d) == [i \in 1..Len(d) |-> d[i][2]]

RECURSIVE DictUpdate(_, _)
\* {**a, **b} on insertion-ordered dicts
DictUpdate(a, b) ==
    IF b = <<>> THEN a
    ELSE DictUpdate(DictSet(a, Head(b)[1], Head(b)[2]), Tail(b))

\* {**a, **b} on keyword-argument dicts: b's value wins
KwargsMerge(a, b) ==
    [k \in DOMAIN a \cup DOMAIN b |-> IF k \in DOMAIN b THEN b[k] ELSE a[k]]

\* the empty keyword-argument dict
NoKwargs == [k \in {} |-> TRUE]

\* set(xs)
SeqSet(xs) == {xs[i] : i \in 1..Len(xs)}

--------------------------------------------------------------------------
(* Model declarations (django.db.models) as the registry reads them.       *)

NoModel == ""

RelationTypes == {"ForeignKey", "OneToOneField"}

Field(name, type, related, null, has_default, unique) ==
    [name |-> name, type |-> type, related |-> related, null |-> null,
     blank |-> FALSE, has_default |-> has_default, unique |-> unique,
     validators |-> <<>>]

is_relation(model_field) == model_field.type \in RelationTypes

\* Field.get_attname(): the column attribute of a relation is <name>_id
get_attname(model_field) ==
    IF is_relation(model_field) THEN model_field.name \o "_id" ELSE model_field.name

\* Field.has_default()
has_default(model_field) == model_field.has_default

AutoId == Field("id", "AutoField", NoModel, FALSE, FALSE, TRUE)

\* the models the generated model relates to
Author ==
    [name |-> "Author",
     fields |-> << AutoId,
                   Field("name", "CharField", NoModel, FALSE, FALSE, FALSE),
                   Field("publisher", "ForeignKey", "Publisher", TRUE, FALSE, FALSE) >>,
     pk |-> "id"]

Publisher ==
    [name |-> "Publisher",
     fields |-> << Field("code", "CharField", NoModel, FALSE, FALSE, TRUE) >>,
     pk |-> "code"]

Profile ==
    [name |-> "Profile",
     fields |-> << Field("author", "OneToOneField", "Author", FALSE, FALSE, TRUE),
                   Field("bio", "CharField", NoModel, TRUE, FALSE, FALSE) >>,
     pk |-> "author"]

\* the names of the generated model's fields, by position of declaration
FieldName(i) == <<"a", "b", "c", "d">>[i]

\* what a declared field of the generated model may be
FieldShapes(name) ==
    { Field(name, "CharField", NoModel, FALSE, FALSE, FALSE),
      Field(name, "CharField", NoModel, TRUE, FALSE, FALSE),
      Field(name, "JSONField", NoModel, TRUE, FALSE, FALSE),
      Field(name, "ForeignKey", "Author", FALSE, FALSE, FALSE),
      Field(name, "ForeignKey", "Publisher", TRUE, FALSE, FALSE),
      Field(name, "OneToOneField", "Profile", FALSE, TRUE, TRUE) }

\* the declarations of a model "Post": an id and up to n fields
PostModels(n) ==
    { [name |-> "Post", fields |-> <<AutoId>> \o fs, pk |-> "id"] :
        fs \in UNION { { s \in [1..k -> UNION {FieldShapes(FieldName(i)) : i \in 1..k}] :
                           \A i \in 1..k : s[i] \in FieldShapes(FieldName(i)) }
                       : k \in 0..n } }

ModelNames == {"Post", "Author", "Publisher", "Profile"}

Pool(post) ==
    [m \in ModelNames |->
        CASE m = "Post" -> post
          [] m = "Author" -> Author
          [] m = "Publisher" -> Publisher
          [] m = "Profile" -> Profile]

\* Model._meta.get_field(name) finds a field by its name or by its attribute
\* name; HasField is the absence of FieldDoesNotExist
HasField(pool, model_cls, name) ==
    \E i \in 1..Len(pool[model_cls].fields) :
        name \in {pool[model_cls].fields[i].name, get_attname(pool[model_cls].fields[i])}

get_field(pool, model_cls, name) ==
    LET fs == pool[model_cls].fields
    IN fs[CHOOSE i \in 1..Len(fs) : name \in {fs[i].name, get_attname(fs[i])}]

\* ModelInspector.concrete_fields: the fields that are no relation, as declared
inspector_concrete_fields(pool, model_cls) ==
    SelectSeq(pool[model_cls].fields, LAMBDA f : ~is_relation(f))

\* ModelInspector.forward_relation_fields: the relations, as declared
inspector_forward_relation_fields(pool, model_cls) ==
    SelectSeq(pool[model_cls].fields, LAMBDA f : is_relation(f))


--------------------------------------------------------------------------
(* Serializer fields (rest_framework) and the field registry.              *)

\* a class that is no serializer class: the serializer_cls of a plain field
NoClass == [name |-> "", fields |-> <<>>, declared |-> <<>>, validate |-> FALSE]

\* field_class(**kwargs): a serializer field instance
FieldSerializer(field_class, kwargs) ==
    [cls |-> field_class, kwargs |-> kwargs, serializer_cls |-> NoClass]

\* Field.allow_null: the keyword argument, False by default
allow_null(field) ==
    IF "allow_null" \in DOMAIN field.kwargs THEN field.kwargs["allow_null"] ELSE FALSE

\* Field.read_only: the keyword argument, False by default
read_only(field) ==
    IF "read_only" \in DOMAIN field.kwargs THEN field.kwargs["read_only"] ELSE FALSE

\* config.FIELD_TYPES: the model field types with a registered serializer class
FIELD_TYPES == [t \in {"JSONField"} |-> [serializer_class |-> "JSONField"]]

\* ModelSerializer.serializer_field_mapping
serializer_field_mapping ==
    [t \in {"AutoField", "CharField", "IntegerField", "JSONField"} |->
        CASE t = "AutoField" -> "IntegerField"
          [] t = "CharField" -> "CharField"
          [] t = "IntegerField" -> "IntegerField"
          [] t = "JSONField" -> "JSONField"]

\* ModelSerializer.build_standard_field(name, model_field): the class and the
\* keyword arguments rest_framework's get_field_kwargs infers
build_standard_field(model_field) ==
    [field_class |-> serializer_field_mapping[model_field.type],
     field_kwargs |->
        IF model_field.type = "AutoField"
        THEN [k \in {"read_only"} |-> TRUE]
        ELSE KwargsMerge(
                KwargsMerge(
                    IF has_default(model_field) \/ model_field.blank \/ model_field.null
                    THEN [k \in {"required"} |-> FALSE] ELSE NoKwargs,
                    IF model_field.null
                    THEN [k \in {"allow_null"} |-> TRUE] ELSE NoKwargs),
                IF model_field.unique
                THEN [k \in {"validators"} |-> <<"UniqueValidator">>] ELSE NoKwargs)]

\* self.serializer_field_kwargs.get(name, {})
kwarg_overrides(self, name) ==
    IF name \in DOMAIN self.serializer_field_kwargs
    THEN self.serializer_field_kwargs[name] ELSE NoKwargs

FieldInfo(serializer_field_name, model_field, serializer) ==
    [serializer_field_name |-> serializer_field_name, model_field |-> model_field,
     serializer |-> serializer]

\* the class and inferred keyword arguments of one concrete field
concrete_field_inferred(model_field) ==
    IF model_field.type \in DOMAIN FIELD_TYPES
    THEN [field_class |-> FIELD_TYPES[model_field.type].serializer_class,
          field_kwargs |-> [k \in {"required"} |-> ~model_field.null]]
    ELSE build_standard_field(model_field)

\* the keyword arguments of a concrete field with the inferred ones on top
concrete_field_kwargs_inferred_win(self, model_field) ==
    KwargsMerge(kwarg_overrides(self, model_field.name),
                concrete_field_inferred(model_field).field_kwargs)

\* the keyword arguments a concrete field's serializer is constructed with
concrete_field_kwargs(self, model_field) ==
    KwargsMerge(concrete_field_inferred(model_field).field_kwargs,
                kwarg_overrides(self, model_field.name))

\* one iteration of the loop over model_inspector.concrete_fields
build_concrete_field(self, model_field) ==
    LET field_serializer ==
            FieldSerializer(concrete_field_inferred(model_field).field_class,
                            concrete_field_kwargs(self, model_field))
    IN [self EXCEPT
          !.concrete_fields = DictSet(@, model_field.name, field_serializer),
          !.field_info = Append(@, FieldInfo(model_field.name, model_field, field_serializer))]

\* the keyword arguments a proxy field's serializer is constructed with
proxy_field_kwargs(self, one_to_one_field, model_proxy_field) ==
    KwargsMerge(
        KwargsMerge(build_standard_field(model_proxy_field).field_kwargs,
                    kwarg_overrides(self, model_proxy_field.name)),
        [k \in {"source"} |-> one_to_one_field.name \o "." \o model_proxy_field.name])

\* one iteration of the loop over a one-to-one field's proxy fields
build_proxy_field(pool, self, one_to_one_field_name, proxy_field_name) ==
    LET one_to_one_field == get_field(pool, self.model_cls, one_to_one_field_name)
        related_model_cls == one_to_one_field.related
        model_proxy_field == get_field(pool, related_model_cls, proxy_field_name)
        field_serializer ==
            FieldSerializer(build_standard_field(model_proxy_field).field_class,
                            proxy_field_kwargs(self, one_to_one_field, model_proxy_field))
    IN [self EXCEPT
          !.concrete_fields = DictSet(@, model_proxy_field.name, field_serializer),
          !.field_info = Append(@, FieldInfo(model_proxy_field.name, model_proxy_field,
                                             field_serializer))]

RECURSIVE build_concrete_loop(_, _)
build_concrete_loop(self, model_fields) ==
    IF model_fields = <<>> THEN self
    ELSE build_concrete_loop(build_concrete_field(self, Head(model_fields)),
                             Tail(model_fields))

RECURSIVE build_proxy_inner(_, _, _, _)
build_proxy_inner(pool, self, one_to_one_field_name, proxy_fields) ==
    IF proxy_fields = <<>> THEN self
    ELSE build_proxy_inner(
            pool,
            build_proxy_field(pool, self, one_to_one_field_name, Head(proxy_fields)),
            one_to_one_field_name, Tail(proxy_fields))

RECURSIVE build_proxy_loop(_, _, _)
build_proxy_loop(pool, self, items) ==
    IF items = <<>> THEN self
    ELSE build_proxy_loop(pool,
                          build_proxy_inner(pool, self, Head(items)[1], Head(items)[2]),
                          Tail(items))

\* ModelTypeSerializer._build_concrete_fields (one_to_one_proxy_fields None is <<>>)
build_concrete_fields(pool, self) ==
    build_proxy_loop(
        pool,
        build_concrete_loop(self, inspector_concrete_fields(pool, self.model_cls)),
        self.one_to_one_proxy_fields)

\* ModelTypeSerializer._forward_rel_field_kwargs
forward_rel_field_kwargs(self, model_field) ==
    LET k1 == IF has_default(model_field) \/ model_field.blank \/ model_field.null
              THEN [k \in {"required"} |-> FALSE] ELSE NoKwargs
        k2 == IF model_field.null
              THEN KwargsMerge(k1, [k \in {"allow_null"} |-> TRUE]) ELSE k1
        k3 == IF model_field.validators # <<>>
              THEN KwargsMerge(k2, [k \in {"validators"} |-> model_field.validators])
              ELSE k2
        k4 == IF model_field.unique
              THEN KwargsMerge(k3, [k \in {"validators"} |->
                        (IF "validators" \in DOMAIN k3 THEN k3["validators"] ELSE <<>>)
                            \o <<"UniqueValidator">>])
              ELSE k3
    IN KwargsMerge(k4, kwarg_overrides(self, model_field.name))

RECURSIVE resolve_forward_rel_field_type(_, _)
\* ModelTypeSerializer._resolve_forward_rel_field_type
resolve_forward_rel_field_type(pool, model_field) ==
    LET pk_field == get_field(pool, model_field.related, pool[model_field.related].pk)
    IN IF pk_field.type = "AutoField" THEN "IntegerField"
       ELSE IF pk_field.type = "OneToOneField"
            THEN resolve_forward_rel_field_type(pool, pk_field)
            ELSE serializer_field_mapping[pk_field.type]

\* one iteration of the loop of _build_forward_relation_fields
build_forward_relation_field(pool, self, model_field) ==
    LET field_class == resolve_forward_rel_field_type(pool, model_field)
        field_kwargs == forward_rel_field_kwargs(self, model_field)
        field_serializer == FieldSerializer(field_class, field_kwargs)
        field_name == get_attname(model_field)
    IN [self EXCEPT
          !.forward_rel_fields = DictSet(@, field_name, field_serializer),
          !.forward_rel_model_fields = DictSet(@, field_name, model_field),
          !.field_info = Append(@, FieldInfo(field_name, model_field, field_serializer))]

RECURSIVE build_forward_relation_loop(_, _, _)
build_forward_relation_loop(pool, self, model_fields) ==
    IF model_fields = <<>> THEN self
    ELSE build_forward_relation_loop(
            pool, build_forward_relation_field(pool, self, Head(model_fields)),
            Tail(model_fields))

\* ModelTypeSerializer._build_forward_relation_fields
build_forward_relation_fields(pool, self) ==
    build_forward_relation_loop(pool, self,
                                inspector_forward_relation_fields(pool, self.model_cls))

\* ModelTypeSerializer._property_field_serializer
property_field_serializer == FieldSerializer("JSONField", [k \in {"read_only"} |-> TRUE])

RECURSIVE build_property_loop(_, _)
build_property_loop(self, names) ==
    IF names = <<>> THEN self
    ELSE build_property_loop(
            [self EXCEPT !.property_fields = DictSet(@, Head(names), property_field_serializer)],
            Tail(names))

\* ModelTypeSerializer._build_property_fields (property_fields None is <<>>)
build_property_fields(self) == build_property_loop(self, self.property_field_names)

\* ModelTypeSerializer._build_fields
build_fields(pool, self) ==
    build_property_fields(build_forward_relation_fields(pool, build_concrete_fields(pool, self)))

\* field_names with the relations listed first
field_names_relations_first(self) ==
    DictKeys(self.forward_rel_fields) \o DictKeys(self.concrete_fields)

\* ModelTypeSerializer.field_names
field_names(self) == DictKeys(self.concrete_fields) \o DictKeys(self.forward_rel_fields)

\* ModelTypeSerializer._build_serializer_cls: the class holds Meta.fields, the
\* declared fields and the validate hook
build_serializer_cls(self) ==
    [self EXCEPT !.base_serializer_cls =
        [name |-> self.model_cls \o "Serializer",
         fields |-> field_names(self),
         declared |-> DictUpdate(self.concrete_fields, self.forward_rel_fields),
         validate |-> TRUE]]

\* ModelTypeSerializer._allowed_validator_field_names
allowed_validator_field_names(self) ==
    DictKeys(self.concrete_fields) \o DictKeys(self.forward_rel_fields)
        \o [i \in 1..Len(self.forward_rel_model_fields) |->
                DictValues(self.forward_rel_model_fields)[i].name]

\* ModelTypeValidator(validate_func): the parameter names of the callable
NoValidator == [bound |-> FALSE, validator_field_names |-> <<>>]

ModelTypeValidator(params) == [bound |-> TRUE, validator_field_names |-> params]

\* _check_validate_func without its assertion
check_validate_func_skipped(self) == TRUE

\* ModelTypeSerializer._check_validate_func: TRUE when the assertion passes
check_validate_func(self) ==
    self.validator.bound =>
        Cardinality(SeqSet(self.validator.validator_field_names)
                        \ SeqSet(allowed_validator_field_names(self))) = 0

\* ModelTypeSerializer.__init__ up to the check: the attributes, the field
\* groups and the base serializer class
new_serializer(pool, model_cls, validator, serializer_field_kwargs, one_to_one_proxy_fields, property_fields) ==
    build_serializer_cls(build_fields(pool,
        [model_cls |-> model_cls,
         validator |-> validator,
         serializer_field_kwargs |-> serializer_field_kwargs,
         one_to_one_proxy_fields |-> one_to_one_proxy_fields,
         property_field_names |-> property_fields,
         concrete_fields |-> <<>>,
         property_fields |-> <<>>,
         forward_rel_fields |-> <<>>,
         forward_rel_model_fields |-> <<>>,
         field_info |-> <<>>,
         base_serializer_cls |-> NoClass]))

\* ModelTypeSerializer(model_cls=...): the marshaller of a model, no options
plain_serializer(pool, model_cls) ==
    new_serializer(pool, model_cls, NoValidator, NoKwargs, <<>>, <<>>)


--------------------------------------------------------------------------
(* Construction.                                                           *)

NoOutcome == [op |-> "none"]

\* the outcome once the caller has taken the result of the last call
Idle == [op |-> "idle"]

\* a call starts once the last one has returned to its caller
Ready == outcome.op \in {"construct", "idle"}

\* the caller takes what the last call on a marshaller returned or raised
Return ==
    /\ outcome.op \in {"validate", "expand", "project"}
    /\ outcome' = Idle
    /\ UNCHANGED <<model_pool, store, marshallers>>

\* ModelTypeSerializer.__init__: the marshaller is returned when the check of
\* the validator's parameters passes, and the AssertionError leaves none
Construct(model_cls, validator, serializer_field_kwargs, one_to_one_proxy_fields, property_fields) ==
    LET self == new_serializer(model_pool, model_cls, validator, serializer_field_kwargs,
                               one_to_one_proxy_fields, property_fields)
        call == [model_cls |-> model_cls, validator |-> validator,
                 serializer_field_kwargs |-> serializer_field_kwargs,
                 one_to_one_proxy_fields |-> one_to_one_proxy_fields,
                 property_fields |-> property_fields]
    IN /\ marshallers = {}
       /\ outcome = NoOutcome
       /\ IF check_validate_func(self)
          THEN /\ marshallers' = {self}
               /\ outcome' = [op |-> "construct", error |-> "", call |-> call]
          ELSE /\ marshallers' = marshallers
               /\ outcome' = [op |-> "construct", error |-> "AssertionError", call |-> call]
       /\ UNCHANGED <<model_pool, store>>

\* the names a caller may bind a validator to: the model's field names, the
\* relations' attribute names, a proxied name and a name of no field
ParamNames(pool, model_cls) ==
    UNION { {pool[model_cls].fields[i].name, get_attname(pool[model_cls].fields[i])} :
                i \in 1..Len(pool[model_cls].fields) } \cup {"bio", "zzz"}

\* validate functions of one or two parameters
Validators(names) ==
    { ModelTypeValidator(<<p>>) : p \in names }
        \cup { ModelTypeValidator(<<p, q>>) : p \in names, q \in names }

\* the serialization options an override configuration sets
OverrideKwargs ==
    { [required |-> TRUE],
      [allow_null |-> FALSE],
      [required |-> FALSE, allow_null |-> TRUE],
      [source |-> "other"],
      [read_only |-> TRUE] }

\* override configurations of at most one field
Overrides(names) ==
    {NoKwargs} \cup { [n \in {name} |-> kw] : name \in names, kw \in OverrideKwargs }

\* proxy configurations: none, or the bio of one one-to-one related Profile
Proxies(pool, model_cls) ==
    {<<>>} \cup
    { << <<pool[model_cls].fields[i].name, <<"bio">>>> >> :
        i \in { j \in 1..Len(pool[model_cls].fields) :
                    pool[model_cls].fields[j].related = "Profile" } }

PropertyFieldNames == {<<>>, <<"summary">>}

\* registration of the model with no option
RegisterPlain == Construct("Post", NoValidator, NoKwargs, <<>>, <<>>)

\* registration of the model with a validate function
RegisterValidated ==
    \E v \in Validators(ParamNames(model_pool, "Post")),
       x \in Proxies(model_pool, "Post") :
        Construct("Post", v, NoKwargs, x, <<>>)

\* registration of the model with overrides, proxy fields and property fields
RegisterConfigured ==
    \E o \in Overrides(ParamNames(model_pool, "Post")),
       x \in Proxies(model_pool, "Post"),
       q \in PropertyFieldNames :
        Construct("Post", NoValidator, o, x, q)

InitBuild ==
    /\ model_pool \in { Pool(post) : post \in PostModels(MaxFields) }
    /\ store = [m \in ModelNames |-> {}]
    /\ marshallers = {}
    /\ outcome = NoOutcome

NextBuild == RegisterPlain \/ RegisterValidated \/ RegisterConfigured

SpecBuild == InitBuild /\ [][NextBuild]_vars


--------------------------------------------------------------------------
(* Decoding: the validate hook of the base serializer class.               *)

\* the pks a caller may send: those of the stored rows and one of no row
SentPks == 1..(MaxPk + 1)

\* the errors a validate function may raise
ValidationErrors == {"start after end", "title taken"}

\* related_model.objects.get(pk=v) finds a row: no DoesNotExist
row_exists(st, model, v) == v.v \in st[model]

\* the attrs keys _resolve_validator_forward_relations looks up
resolved_keys(self, data) ==
    { k \in DOMAIN data :
        /\ DictHas(self.forward_rel_model_fields, k)
        /\ data[k] # NoneVal
        /\ DictGet(self.forward_rel_model_fields, k).name
              \in SeqSet(self.validator.validator_field_names) }

\* _resolve_validator_forward_relations with the rows keyed by attribute name
resolve_by_attname(st, self, data) ==
    LET keys == resolved_keys(self, data)
        field_of(k) == DictGet(self.forward_rel_model_fields, k)
    IN [raised |-> \E k \in keys : ~row_exists(st, field_of(k).related, data[k]),
        lookups |-> { [model |-> field_of(k).related, pk |-> data[k].v] : k \in keys },
        resolved_relations |->
            [k \in keys |-> Entity(field_of(k).related, data[k].v)]]

\* ModelTypeSerializer._resolve_validator_forward_relations: the related rows
\* by field name, or DoesNotExist raised by a lookup that finds no row
resolve_validator_forward_relations(st, self, data) ==
    LET keys == resolved_keys(self, data)
        field_of(k) == DictGet(self.forward_rel_model_fields, k)
    IN [raised |-> \E k \in keys : ~row_exists(st, field_of(k).related, data[k]),
        lookups |-> { [model |-> field_of(k).related, pk |-> data[k].v] : k \in keys },
        resolved_relations |->
            [n \in { field_of(k).name : k \in keys } |->
                LET k == CHOOSE k \in keys : field_of(k).name = n
                IN Entity(field_of(k).related, data[k].v)]]

\* the loop of a partial update without its test of the name's absence
backfill_overwrites(self, attrs, instance) ==
    [n \in DOMAIN attrs \cup SeqSet(self.validator.validator_field_names) |->
        IF n \in SeqSet(self.validator.validator_field_names) THEN instance[n] ELSE attrs[n]]

\* the loop of a partial update: attrs[name] = getattr(instance, name) for the
\* validator's parameters that attrs lacks
backfill(self, attrs, instance) ==
    [n \in DOMAIN attrs \cup SeqSet(self.validator.validator_field_names) |->
        IF n \in DOMAIN attrs THEN attrs[n] ELSE instance[n]]

\* {**attrs, **resolved_relations}: what the validate function is called with
validator_kwargs(attrs, resolved_relations) == KwargsMerge(attrs, resolved_relations)

\* the validate hook, _self being the serializer (partial, instance) and
\* verdict what the validate function does with its arguments: the events in
\* order, the arguments of the validate function and of the inherited
\* ModelSerializer.validate, and the exception or the returned attrs
validate(st, self, _self, attrs, verdict) ==
    LET res == resolve_validator_forward_relations(st, self, attrs)
        attrs2 == IF _self.partial THEN backfill(self, attrs, _self.instance) ELSE attrs
        base == [op |-> "validate", self |-> self, partial |-> _self.partial,
                 instance |-> _self.instance, attrs |-> attrs]
    IN IF ~self.validator.bound
       THEN base @@ [log |-> <<"structural">>, lookups |-> {}, validator_calls |-> <<>>,
                     structural_calls |-> <<attrs>>, raised |-> "", error |-> "",
                     detail |-> "", returned |-> <<attrs>>]
       ELSE IF res.raised
       THEN base @@ [log |-> <<"resolve">>, lookups |-> res.lookups, validator_calls |-> <<>>,
                     structural_calls |-> <<>>, raised |-> "", error |-> "DoesNotExist",
                     detail |-> "", returned |-> <<>>]
       ELSE IF verdict # "pass"
       THEN base @@ [log |-> <<"resolve", "validator">>, lookups |-> res.lookups,
                     validator_calls |-> <<validator_kwargs(attrs2, res.resolved_relations)>>,
                     structural_calls |-> <<>>, raised |-> verdict,
                     error |-> "ValidationError", detail |-> verdict, returned |-> <<>>]
       ELSE base @@ [log |-> <<"resolve", "validator", "structural">>, lookups |-> res.lookups,
                     validator_calls |-> <<validator_kwargs(attrs2, res.resolved_relations)>>,
                     structural_calls |-> <<attrs2>>, raised |-> "", error |-> "",
                     detail |-> "", returned |-> <<attrs2>>]

\* the persisted row of a model whose columns all hold p: a relation's
\* attribute name gives the pk, its field name the related row
InstanceOf(pool, model_cls, p) ==
    LET fs == pool[model_cls].fields
    IN [n \in { fs[k].name : k \in 1..Len(fs) } \cup { get_attname(fs[k]) : k \in 1..Len(fs) } |->
            IF \E k \in 1..Len(fs) : is_relation(fs[k]) /\ fs[k].name = n
            THEN Entity(get_field(pool, model_cls, n).related, p)
            ELSE Scalar(p)]

\* the attrs per-field coercion hands to the hook: a value for some of the
\* writable fields, None only where the field allows it
CoercedAttrs(self) ==
    LET writable == { n \in SeqSet(field_names(self)) :
                        ~read_only(DictGet(self.base_serializer_cls.declared, n)) }
        values(n) == { Scalar(p) : p \in SentPks } \cup
                     ( IF allow_null(DictGet(self.base_serializer_cls.declared, n))
                       THEN {NoneVal} ELSE {} )
    IN UNION { { a \in [keys -> { Scalar(p) : p \in SentPks } \cup {NoneVal}] :
                    \A n \in keys : a[n] \in values(n) }
               : keys \in SUBSET writable }

\* a decode reaches the validate hook of a marshaller's base serializer class
Validate ==
    \E m \in marshallers :
    \E attrs \in CoercedAttrs(m), partial \in BOOLEAN,
       p \in 1..MaxPk, verdict \in {"pass"} \cup ValidationErrors :
        /\ Ready
        /\ outcome' = validate(store, m,
                               [partial |-> partial,
                                instance |-> InstanceOf(model_pool, m.model_cls, p)],
                               attrs, verdict)
        /\ UNCHANGED <<model_pool, store, marshallers>>

\* the models whose marshallers decode: two fields, each a string, a required
\* relation or a nullable relation
DecodePosts ==
    { post \in PostModels(2) :
        /\ Len(post.fields) = 3
        /\ \A k \in 2..3 : post.fields[k].type \in {"CharField", "ForeignKey"}
        /\ \A k \in 2..3 : post.fields[k].type = "CharField" => ~post.fields[k].null }

\* registration for decoding: no validate function, or one bound to one or
\* two of the names a, b, a_id and b_id
RegisterForDecode ==
    \E v \in {NoValidator} \cup
             Validators(ParamNames(model_pool, "Post") \ {"id", "bio", "zzz"}) :
        Construct("Post", v, NoKwargs, <<>>, <<>>)

InitDecode ==
    /\ model_pool \in { Pool(post) : post \in DecodePosts }
    /\ store = [m \in ModelNames |-> 1..MaxPk]
    /\ marshallers = {}
    /\ outcome = NoOutcome

NextDecode == RegisterForDecode \/ Validate \/ Return

SpecDecode == InitDecode /\ [][NextDecode]_vars

--------------------------------------------------------------------------
(* Prefetch tree expansion and type projection.                            *)

\* a prefetch tree: a field name, a list of field names, or a mapping from a
\* relation's name to a prefetch tree
StrTree(name) == [tag |-> "str", name |-> name, names |-> <<>>, items |-> <<>>]
ListTree(names) == [tag |-> "list", name |-> "", names |-> names, items |-> <<>>]
MapTree(items) == [tag |-> "map", name |-> "", names |-> <<>>, items |-> items]

\* serializer_cls(many=False): a nested serializer instance
NestedSerializer(serializer_cls) ==
    [cls |-> "Serializer", kwargs |-> [many |-> FALSE], serializer_cls |-> serializer_cls]

\* ModelTypeSerializer._build_prefetch_serializer
build_prefetch_serializer(pool, self, prefetch_field) ==
    IF HasField(pool, self.model_cls, prefetch_field)
    THEN NestedSerializer(
            plain_serializer(pool, get_field(pool, self.model_cls, prefetch_field).related)
                .base_serializer_cls)
    ELSE property_field_serializer

\* the class statement with Meta.fields left at the base field names
prefetch_serializer_cls_base_fields(self, prefetch_fields) ==
    [name |-> self.model_cls \o "PrefetchSerializer",
     fields |-> field_names(self),
     declared |-> DictUpdate(DictUpdate(self.concrete_fields, self.forward_rel_fields),
                             prefetch_fields),
     validate |-> FALSE]

\* the class statement of build_prefetch_serializer_tree: Meta.fields and the
\* declared fields of the prefetch serializer class
prefetch_serializer_cls(self, prefetch_fields) ==
    [name |-> self.model_cls \o "PrefetchSerializer",
     fields |-> field_names(self) \o DictKeys(prefetch_fields),
     declared |-> DictUpdate(DictUpdate(self.concrete_fields, self.forward_rel_fields),
                             prefetch_fields),
     validate |-> FALSE]

\* the marshaller as build_prefetch_serializer_tree leaves it: the method
\* assigns no attribute of self
self_after_prefetch(self, prefetch_fields) == self

RECURSIVE prefetch_list_loop(_, _, _, _)
\* the loop over a list entry
prefetch_list_loop(pool, self, prefetch_fields, names) ==
    IF names = <<>> THEN prefetch_fields
    ELSE prefetch_list_loop(
            pool, self,
            DictSet(prefetch_fields, Head(names),
                    build_prefetch_serializer(pool, self, Head(names))),
            Tail(names))

RECURSIVE prefetch_fields_of(_, _, _, _)
RECURSIVE prefetch_map_loop(_, _, _, _)
\* the loop over the items of a mapping entry that keeps the rule of an
\* earlier entry of the same name
prefetch_map_loop_keeps_first(pool, self, prefetch_fields, items) ==
    IF items = <<>> THEN prefetch_fields
    ELSE LET model_field == get_field(pool, self.model_cls, Head(items)[1])
             serializer == plain_serializer(pool, model_field.related)
             serializer_cls ==
                prefetch_serializer_cls(
                    serializer, prefetch_fields_of(pool, serializer, <<>>, <<Head(items)[2]>>))
         IN prefetch_map_loop(
                pool, self,
                IF DictHas(prefetch_fields, model_field.name) THEN prefetch_fields
                ELSE DictSet(prefetch_fields, model_field.name, NestedSerializer(serializer_cls)),
                Tail(items))

\* the loop over the items of a mapping entry: the nested marshaller of the
\* related model expands the item's tree
prefetch_map_loop(pool, self, prefetch_fields, items) ==
    IF items = <<>> THEN prefetch_fields
    ELSE LET model_field == get_field(pool, self.model_cls, Head(items)[1])
             serializer == plain_serializer(pool, model_field.related)
             serializer_cls ==
                prefetch_serializer_cls(
                    serializer, prefetch_fields_of(pool, serializer, <<>>, <<Head(items)[2]>>))
         IN prefetch_map_loop(
                pool, self,
                DictSet(prefetch_fields, model_field.name, NestedSerializer(serializer_cls)),
                Tail(items))

\* the loop over prefetch_trees, from the prefetch_fields gathered so far
prefetch_fields_of(pool, self, prefetch_fields, prefetch_trees) ==
    IF prefetch_trees = <<>> THEN prefetch_fields
    ELSE LET prefetch_tree == Head(prefetch_trees)
             next ==
                CASE prefetch_tree.tag = "str" ->
                        DictSet(prefetch_fields, prefetch_tree.name,
                                build_prefetch_serializer(pool, self, prefetch_tree.name))
                  [] prefetch_tree.tag = "list" ->
                        prefetch_list_loop(pool, self, prefetch_fields, prefetch_tree.names)
                  [] prefetch_tree.tag = "map" ->
                        prefetch_map_loop(pool, self, prefetch_fields, prefetch_tree.items)
         IN prefetch_fields_of(pool, self, next, Tail(prefetch_trees))

\* ModelTypeSerializer.build_prefetch_serializer_tree: the class it returns
\* and the marshaller as it leaves it
build_prefetch_serializer_tree(pool, self, prefetch_trees) ==
    LET prefetch_fields == prefetch_fields_of(pool, self, <<>>, prefetch_trees)
    IN [serializer_cls |-> prefetch_serializer_cls(self, prefetch_fields),
        self |-> self_after_prefetch(self, prefetch_fields)]

\* the names a prefetch entry of a model may hold: its relations and a
\* computed field
RelationNames(pool, model_cls) ==
    { pool[model_cls].fields[k].name :
        k \in { j \in 1..Len(pool[model_cls].fields) : is_relation(pool[model_cls].fields[j]) } }

PrefetchNames(pool, model_cls) == RelationNames(pool, model_cls) \cup {"x"}

RECURSIVE PrefetchTrees(_, _, _)
\* the prefetch trees of a model, mappings nested to a depth
PrefetchTrees(pool, model_cls, depth) ==
    LET names == PrefetchNames(pool, model_cls)
    IN { StrTree(n) : n \in names }
         \cup { ListTree(<<n, o>>) : n \in names, o \in names }
         \cup ( IF depth = 0 THEN {}
                ELSE UNION { { MapTree(<< <<k, t>> >>) :
                                t \in PrefetchTrees(pool, get_field(pool, model_cls, k).related,
                                                    depth - 1) }
                             : k \in RelationNames(pool, model_cls) } )

\* the lists of prefetch trees a caller may pass
PrefetchLists(pool, model_cls) ==
    UNION { [1..n -> PrefetchTrees(pool, model_cls, MaxDepth)] : n \in 0..MaxTrees }

\* a caller expands a marshaller by a list of prefetch trees
Expand ==
    \E m \in marshallers :
    \E prefetch_trees \in PrefetchLists(model_pool, m.model_cls) :
        LET r == build_prefetch_serializer_tree(model_pool, m, prefetch_trees)
        IN /\ Ready
           /\ marshallers' = {r.self}
           /\ outcome' = [op |-> "expand", self |-> m, prefetch_trees |-> prefetch_trees,
                          serializer_cls |-> r.serializer_cls]
           /\ UNCHANGED <<model_pool, store>>

RECURSIVE get_fields_loop(_, _, _)
get_fields_loop(serializer_cls, fields, names) ==
    IF names = <<>> THEN fields
    ELSE get_fields_loop(
            serializer_cls,
            DictSet(fields, Head(names), DictGet(serializer_cls.declared, Head(names))),
            Tail(names))

\* ModelSerializer.get_fields(): the declared field of each name of
\* Meta.fields, in that order
get_fields(serializer_cls) == get_fields_loop(serializer_cls, <<>>, serializer_cls.fields)

\* FieldTypeTranspiler.transpile: the type tag of a serializer field
transpile(field) ==
    CASE field.cls = "IntegerField" -> "number"
      [] field.cls = "CharField" -> "string"
      [] field.cls = "BooleanField" -> "boolean"
      [] field.cls = "Serializer" -> field.serializer_cls.name
      [] field.cls = "JSONField" -> "any"
      [] OTHER -> "unknown"

\* the declaration of one field with optional and readonly exchanged
type_declaration_swapped(field_name, field) ==
    [name |-> field_name, optional |-> read_only(field), readonly |-> allow_null(field),
     type_ |-> transpile(field)]

\* render_type_declaration(name, optional, readonly, type_) of one field
type_declaration(field_name, field) ==
    [name |-> field_name, optional |-> allow_null(field), readonly |-> read_only(field),
     type_ |-> transpile(field)]

\* ObjectTypeTranspiler.field_type_declarations: one declaration per item of
\* serializer_cls().get_fields()
field_type_declarations(serializer_cls) ==
    LET serializer_fields == get_fields(serializer_cls)
    IN [i \in 1..Len(serializer_fields) |->
            type_declaration(serializer_fields[i][1], serializer_fields[i][2])]

\* the type projection of a marshaller's base serializer class, or of the
\* class the last expansion returned
Project ==
    \E m \in marshallers :
    \E serializer_cls \in {m.base_serializer_cls} \cup
                          (IF outcome.op = "expand" THEN {outcome.serializer_cls} ELSE {}) :
        /\ outcome.op \in {"construct", "idle", "expand"}
        /\ outcome' = [op |-> "project", serializer_cls |-> serializer_cls,
                       declarations |-> field_type_declarations(serializer_cls)]
        /\ UNCHANGED <<model_pool, store, marshallers>>

\* the models whose marshallers are expanded and projected: a field a that
\* is a nullable string or a relation, and a nullable string b
PrefetchPosts ==
    { post \in PostModels(2) :
        /\ Len(post.fields) = 3
        /\ post.fields[2].type \in {"CharField", "ForeignKey"}
        /\ post.fields[2].type = "CharField" => post.fields[2].null
        /\ post.fields[3].type = "CharField" /\ post.fields[3].null }

\* registration for expansion: no option, or an override of one field
RegisterForPrefetch ==
    \E o \in {NoKwargs, [a |-> [allow_null |-> TRUE]], [b |-> [read_only |-> TRUE]]} :
        Construct("Post", NoValidator, o, <<>>, <<>>)

InitPrefetch ==
    /\ model_pool \in { Pool(post) : post \in PrefetchPosts }
    /\ store = [m \in ModelNames |-> {}]
    /\ marshallers = {}
    /\ outcome = NoOutcome

NextPrefetch == RegisterForPrefetch \/ Expand \/ Project \/ Return

SpecPrefetch == InitPrefetch /\ [][NextPrefetch]_vars

--------------------------------------------------------------------------
(* Claims about the field registry and the validator binding.              *)

\* the positions of the declared fields of a marshaller's model
Declared(m) == model_pool[m.model_cls].fields

\* a marshaller built with no overrides, no proxy and no computed fields
NoOptions(m) ==
    /\ m.serializer_field_kwargs = NoKwargs
    /\ m.one_to_one_proxy_fields = <<>>
    /\ m.property_field_names = <<>>

\* the position in the field set of the declared field k
PosOf(m, k) == CHOOSE i \in 1..Len(field_names(m)) : field_names(m)[i] = get_attname(Declared(m)[k])

\* the field set has one entry per declared field, N+M in all, without
\* duplicates, and Meta.fields of the base serializer class is that list
FieldSetIsDeclaredFields(m) ==
    LET fs == Declared(m)
        names == field_names(m)
        N == Cardinality({k \in 1..Len(fs) : ~is_relation(fs[k])})
        M == Cardinality({k \in 1..Len(fs) : is_relation(fs[k])})
    IN /\ Len(names) = N + M
       /\ \A i, j \in 1..Len(names) : i # j => names[i] # names[j]
       /\ \A k \in 1..Len(fs) : \E i \in 1..Len(names) : names[i] = get_attname(fs[k])
       /\ m.base_serializer_cls.fields = names

\* C1 as stated: with no options the field set has exactly N+M entries,
\* without duplicates, in the order the model declares its fields.
C1_DeclaredOrder ==
    \A m \in marshallers :
        NoOptions(m) =>
            /\ FieldSetIsDeclaredFields(m)
            /\ \A k, l \in 1..Len(Declared(m)) : k < l => PosOf(m, k) < PosOf(m, l)

\* C1 as amended: with no options the field set has exactly N+M entries,
\* without duplicates: the concrete fields in declared order, then the forward
\* relations (under their attribute names) in declared order.
C1_GroupedOrder ==
    \A m \in marshallers :
        NoOptions(m) =>
            /\ FieldSetIsDeclaredFields(m)
            /\ \A k, l \in 1..Len(Declared(m)) :
                  LET fk == Declared(m)[k]
                      fl == Declared(m)[l]
                  IN /\ (k < l /\ is_relation(fk) = is_relation(fl))
                            => PosOf(m, k) < PosOf(m, l)
                     /\ (~is_relation(fk) /\ is_relation(fl))
                            => PosOf(m, k) < PosOf(m, l)

\* a marshaller of a model that declares a relation before a concrete field
C1_Witness ==
    \E m \in marshallers :
        /\ NoOptions(m)
        /\ \E k, l \in 1..Len(Declared(m)) :
              k < l /\ is_relation(Declared(m)[k]) /\ ~is_relation(Declared(m)[l])

\* the names a validator may be bound to, read off the model and the proxy
\* configuration of a constructor call
KnownFieldNames(call) ==
    LET fs == model_pool[call.model_cls].fields
    IN { fs[k].name : k \in 1..Len(fs) }
         \cup { get_attname(fs[k]) : k \in 1..Len(fs) }
         \cup UNION { SeqSet(call.one_to_one_proxy_fields[i][2]) :
                        i \in 1..Len(call.one_to_one_proxy_fields) }

\* C2: a constructor call whose validator has a parameter that is no known
\* field name ends in the configuration error and returns no marshaller, and
\* every marshaller in use has a validator bound to known field names only.
C2_BadValidatorFailsAtBuild ==
    /\ (/\ outcome.op = "construct"
        /\ outcome.call.validator.bound
        /\ ~(SeqSet(outcome.call.validator.validator_field_names)
                \subseteq KnownFieldNames(outcome.call)))
          => (outcome.error = "AssertionError" /\ marshallers = {})
    /\ \A m \in marshallers :
          m.validator.bound =>
              SeqSet(m.validator.validator_field_names) \subseteq KnownFieldNames(m)

\* a constructor call with a parameter of no field has failed
C2_Witness ==
    /\ outcome.op = "construct"
    /\ outcome.error = "AssertionError"
    /\ "zzz" \in SeqSet(outcome.call.validator.validator_field_names)
    /\ "a" \in SeqSet(outcome.call.validator.validator_field_names)

\* the override configuration of the field a FieldInfo was built from
OverridesOf(m, info) == kwarg_overrides(m, info.model_field.name)

\* a FieldInfo of a proxy field: its model field is no field of the model
IsProxy(m, info) == ~HasField(model_pool, m.model_cls, info.model_field.name)

\* C7 as stated: every option of a field's override configuration is the value
\* its serializer is constructed with, for concrete, proxy and relation fields.
C7_OverridesAlwaysWin ==
    \A m \in marshallers :
        \A i \in 1..Len(m.field_info) :
            LET info == m.field_info[i]
            IN \A k \in DOMAIN OverridesOf(m, info) :
                  /\ k \in DOMAIN info.serializer.kwargs
                  /\ info.serializer.kwargs[k] = OverridesOf(m, info)[k]

\* C7 as amended: every option of a field's override configuration is the value
\* its serializer is constructed with, except the source of a proxy field,
\* which is always <one-to-one field>.<remote field>.
C7_OverridesWinButProxySource ==
    \A m \in marshallers :
        \A i \in 1..Len(m.field_info) :
            LET info == m.field_info[i]
            IN /\ \A k \in DOMAIN OverridesOf(m, info) :
                    \/ IsProxy(m, info) /\ k = "source"
                    \/ /\ k \in DOMAIN info.serializer.kwargs
                       /\ info.serializer.kwargs[k] = OverridesOf(m, info)[k]
               /\ IsProxy(m, info) =>
                    \E j \in 1..Len(m.one_to_one_proxy_fields) :
                        info.serializer.kwargs["source"] =
                            m.one_to_one_proxy_fields[j][1] \o "." \o info.model_field.name

\* an override replaced an inferred option of a relation, and another the
\* inferred option of a proxy field
C7_Witness ==
    \E m \in marshallers :
        \E i \in 1..Len(m.field_info) :
            LET info == m.field_info[i]
            IN /\ info.model_field.null
               /\ "required" \in DOMAIN OverridesOf(m, info)
               /\ OverridesOf(m, info)["required"]
               /\ info.serializer.kwargs["required"]
               /\ is_relation(info.model_field)
               /\ m.one_to_one_proxy_fields # <<>>

--------------------------------------------------------------------------
(* Claims about decoding.                                                  *)

\* the validate function of the last decode was called
ValidatorCalled == outcome.op = "validate" /\ Len(outcome.validator_calls) = 1

\* what the validate function of the last decode was called with
Received == outcome.validator_calls[1]

\* the parameters of the validate function of the last decode
Params == SeqSet(outcome.self.validator.validator_field_names)

\* p is the field name of a relation of the decoded model whose attribute
\* name carries a pk in the supplied attrs
SuppliedRelation(p) ==
    \E k \in 1..Len(Declared(outcome.self)) :
        LET f == Declared(outcome.self)[k]
        IN /\ is_relation(f)
           /\ f.name = p
           /\ get_attname(f) \in DOMAIN outcome.attrs
           /\ outcome.attrs[get_attname(f)] # NoneVal

\* every supplied attr reaches the validate function with its supplied value,
\* and a full decode hands over nothing the caller did not supply, but for
\* the resolved relations
SuppliedKeptAndFullNotBackfilled ==
    /\ \A k \in DOMAIN outcome.attrs :
          k \in DOMAIN Received /\ Received[k] = outcome.attrs[k]
    /\ ~outcome.partial =>
          /\ \A p \in DOMAIN Received : p \in DOMAIN outcome.attrs \/ SuppliedRelation(p)
          /\ outcome.structural_calls # <<>> => outcome.structural_calls[1] = outcome.attrs

\* C3 as stated: in a partial decode the validate function receives, for every
\* parameter absent from the supplied attrs, the instance's persisted value,
\* every supplied attr keeps its value, and a full decode backfills nothing.
C3_BackfillEveryAbsentParam ==
    ValidatorCalled =>
        /\ SuppliedKeptAndFullNotBackfilled
        /\ outcome.partial =>
              \A p \in Params :
                  p \notin DOMAIN outcome.attrs =>
                      p \in DOMAIN Received /\ Received[p] = outcome.instance[p]

\* C3 as amended: in a partial decode the validate function receives, for every
\* parameter absent from the supplied attrs, the instance's persisted value,
\* unless the parameter is the field name of a relation whose attribute name is
\* supplied with a pk (it then receives the row of that pk); every supplied
\* attr keeps its value, and a full decode backfills nothing.
C3_BackfillUnlessResolved ==
    ValidatorCalled =>
        /\ SuppliedKeptAndFullNotBackfilled
        /\ outcome.partial =>
              \A p \in Params :
                  (p \notin DOMAIN outcome.attrs /\ ~SuppliedRelation(p)) =>
                      p \in DOMAIN Received /\ Received[p] = outcome.instance[p]

\* a partial decode supplied b alone to a validate function of a and b, which
\* received the instance's a and the supplied b
C3_Witness ==
    /\ ValidatorCalled
    /\ outcome.partial
    /\ outcome.self.validator.validator_field_names = <<"a", "b">>
    /\ DOMAIN outcome.attrs = {"b"}
    /\ outcome.instance["a"] = Scalar(1)
    /\ outcome.attrs["b"] = Scalar(2)
    /\ Received["a"] = Scalar(1)
    /\ Received["b"] = Scalar(2)

\* C6: a decode whose attrs carry the pk of no row, for a relation resolved
\* for the validate function, ends with a ValidationError and with no other
\* exception.
C6_LookupFailureIsValidationError ==
    (/\ outcome.op = "validate"
     /\ \E q \in outcome.lookups : q.pk \notin store[q.model])
        => outcome.error = "ValidationError"

\* C9 as stated: the validate function receives, for every parameter that names
\* a relation (by its field name or by its attribute name) whose pk the attrs
\* carry, the related row of that pk under the relation's field name.
C9_EveryRelationParamResolved ==
    ValidatorCalled =>
        \A p \in Params :
            \A k \in 1..Len(Declared(outcome.self)) :
                LET f == Declared(outcome.self)[k]
                IN (/\ is_relation(f)
                    /\ p \in {f.name, get_attname(f)}
                    /\ get_attname(f) \in DOMAIN outcome.attrs
                    /\ outcome.attrs[get_attname(f)] # NoneVal)
                      => /\ f.name \in DOMAIN Received
                         /\ Received[f.name] = Entity(f.related, outcome.attrs[get_attname(f)].v)

\* C9 as amended: the validate function receives, under the field name of each
\* relation whose field name is a parameter and whose pk the attrs carry, the
\* related row of that pk, which exists, whatever the instance holds under
\* that name; the attribute name keeps the raw pk, and no lookup is made but
\* for such a pk (none for a null, none for a relation bound by its attribute
\* name alone).
C9_RelationsResolvedByFieldName ==
    /\ ValidatorCalled =>
          \A p \in Params :
              SuppliedRelation(p) =>
                  LET f == get_field(model_pool, outcome.self.model_cls, p)
                      pk == outcome.attrs[get_attname(f)]
                  IN /\ p \in DOMAIN Received
                     /\ Received[p] = Entity(f.related, pk.v)
                     /\ pk.v \in store[f.related]
                     /\ Received[get_attname(f)] = pk
    /\ outcome.op = "validate" =>
          \A q \in outcome.lookups :
              \E p \in Params :
                  /\ SuppliedRelation(p)
                  /\ q.model = get_field(model_pool, outcome.self.model_cls, p).related
                  /\ q.pk = outcome.attrs[get_attname(
                                get_field(model_pool, outcome.self.model_cls, p))].v

\* a partial decode resolved the supplied pk 2 of relation a although the
\* instance holds row 1, and did not look up the null relation b
C9_Witness ==
    /\ ValidatorCalled
    /\ outcome.partial
    /\ outcome.self.validator.validator_field_names = <<"a", "b">>
    /\ DOMAIN outcome.attrs = {"a_id", "b_id"}
    /\ outcome.attrs["a_id"] = Scalar(2)
    /\ outcome.attrs["b_id"] = NoneVal
    /\ outcome.instance["a"] = Entity("Author", 1)
    /\ Received["a"] = Entity("Author", 2)
    /\ Cardinality(outcome.lookups) = 1

\* the number of times an event happened in the last decode
Count(e) == Cardinality({ i \in 1..Len(outcome.log) : outcome.log[i] = e })

\* C10: a decode of a marshaller with a validate function calls it exactly
\* once, before the inherited structural validation; when it raises, the
\* structural validation does not run and the caller gets that very error;
\* with no validate function only the structural validation runs.
C10_ValidatorOnceBeforeStructural ==
    outcome.op = "validate" =>
        IF outcome.self.validator.bound
        THEN /\ Count("validator") = 1
             /\ \A i, j \in 1..Len(outcome.log) :
                   (outcome.log[i] = "validator" /\ outcome.log[j] = "structural") => i < j
             /\ outcome.raised # "" =>
                   /\ Count("structural") = 0
                   /\ outcome.error = "ValidationError"
                   /\ outcome.detail = outcome.raised
             /\ outcome.raised = "" => Count("structural") = 1
        ELSE outcome.log = <<"structural">>

--------------------------------------------------------------------------
(* Claims about prefetch expansion and type projection.                    *)

\* the field names an entry of a prefetch list of a model assigns, in order
EntryNames(model_cls, tree) ==
    CASE tree.tag = "str" -> <<tree.name>>
      [] tree.tag = "list" -> tree.names
      [] tree.tag = "map" ->
            [i \in 1..Len(tree.items) |->
                get_field(model_pool, model_cls, tree.items[i][1]).name]

\* the entries of the last expansion that name the field n
Naming(n) ==
    { i \in 1..Len(outcome.prefetch_trees) :
        n \in SeqSet(EntryNames(outcome.self.model_cls, outcome.prefetch_trees[i])) }

\* the last entry of the last expansion that names the field n
LastNaming(n) == CHOOSE i \in Naming(n) : \A j \in Naming(n) : j <= i

\* the field names the entries of the last expansion assign
PrefetchedNames ==
    UNION { SeqSet(EntryNames(outcome.self.model_cls, outcome.prefetch_trees[i])) :
                i \in 1..Len(outcome.prefetch_trees) }

\* the number of times n occurs in a list
Occurrences(xs, n) == Cardinality({ i \in 1..Len(xs) : xs[i] = n })

\* the rule of the field n is the one its last entry synthesizes: a mapping
\* gives the nested prefetch marshaller of the related model, which declares
\* the names of the mapped tree; a name gives the nested base marshaller of
\* the related model, or the opaque rule of a computed field
RuleOfLastEntry(n) ==
    LET m == outcome.self
        tree == outcome.prefetch_trees[LastNaming(n)]
        rule == DictGet(outcome.serializer_cls.declared, n)
        related == get_field(model_pool, m.model_cls, n).related
    IN IF tree.tag = "map"
       THEN /\ rule.cls = "Serializer"
            /\ rule.serializer_cls.name = related \o "PrefetchSerializer"
            /\ \A i \in 1..Len(tree.items) :
                  get_field(model_pool, m.model_cls, tree.items[i][1]).name = n =>
                      SeqSet(EntryNames(related, tree.items[i][2]))
                          \subseteq SeqSet(rule.serializer_cls.fields)
       ELSE IF n \in RelationNames(model_pool, m.model_cls)
            THEN /\ rule.cls = "Serializer"
                 /\ rule.serializer_cls.name = related \o "Serializer"
                 /\ rule.serializer_cls.fields =
                        field_names(plain_serializer(model_pool, related))
            ELSE rule = FieldSerializer("JSONField", [read_only |-> TRUE])

\* C4: every field the entries of a prefetch list name carries the rule its
\* last entry synthesizes, and occurs once in the resulting field set.
C4_LastWriteWins ==
    outcome.op = "expand" =>
        \A n \in PrefetchedNames :
            /\ RuleOfLastEntry(n)
            /\ Occurrences(outcome.serializer_cls.fields, n) = 1

\* the expansion of ["a", {"a": ["x", "x"]}] gave a the nested prefetch
\* marshaller declaring x
C4_Witness ==
    /\ outcome.op = "expand"
    /\ outcome.prefetch_trees =
          << StrTree("a"), MapTree(<< <<"a", ListTree(<<"x", "x">>)>> >>) >>
    /\ "x" \in SeqSet(DictGet(outcome.serializer_cls.declared, "a").serializer_cls.fields)
    /\ Occurrences(outcome.serializer_cls.fields, "a") = 1

\* C5: the class an expansion returns lists the base field set, in its order
\* and with its rules, then one field per name the entries assign; a mapping
\* that is the last to name a field gives it a nested marshaller declaring the
\* names of the mapped tree; and the marshaller is as it was before the call.
C5_BasePlusPrefetched ==
    outcome.op = "expand" =>
        LET m == outcome.self
            cls == outcome.serializer_cls
            base == field_names(m)
        IN /\ marshallers = {m}
           /\ SubSeq(cls.fields, 1, Len(base)) = base
           /\ \A i \in 1..Len(base) :
                 DictGet(cls.declared, base[i]) = DictGet(m.base_serializer_cls.declared, base[i])
           /\ Len(cls.fields) = Len(base) + Cardinality(PrefetchedNames)
           /\ SeqSet(cls.fields) = SeqSet(base) \cup PrefetchedNames
           /\ \A n \in PrefetchedNames :
                 /\ DictHas(cls.declared, n)
                 /\ outcome.prefetch_trees[LastNaming(n)].tag = "map" => RuleOfLastEntry(n)

\* the expansion of {"a": ["x", "x"]} gave a field a whose
\* nested marshaller declares x, after the fields of the base marshaller
C5_Witness ==
    /\ outcome.op = "expand"
    /\ outcome.prefetch_trees = << MapTree(<< <<"a", ListTree(<<"x", "x">>)>> >>) >>
    /\ outcome.serializer_cls.fields = <<"id", "b", "a_id", "a">>
    /\ "x" \in SeqSet(DictGet(outcome.serializer_cls.declared, "a").serializer_cls.fields)
    /\ marshallers = {outcome.self}

\* C8: the type projection of a class holds one declaration per field of its
\* field set, in the order of the field set, optional where the field's rule
\* allows null and readonly where it is read-only.
C8_ProjectionFollowsRules ==
    outcome.op = "project" =>
        LET cls == outcome.serializer_cls
            decls == outcome.declarations
            option(n, k) == LET kw == DictGet(cls.declared, n).kwargs
                            IN IF k \in DOMAIN kw THEN kw[k] ELSE FALSE
        IN /\ Len(decls) = Len(cls.fields)
           /\ \A n \in SeqSet(cls.fields) :
                 Cardinality({ i \in 1..Len(decls) : decls[i].name = n }) = 1
           /\ \A i \in 1..Len(decls) :
                 /\ decls[i].name = cls.fields[i]
                 /\ decls[i].optional = option(cls.fields[i], "allow_null")
                 /\ decls[i].readonly = option(cls.fields[i], "read_only")

\* a nullable string projected as optional, and a computed field as readonly
C8_Witness ==
    /\ outcome.op = "project"
    /\ \E i, j \in 1..Len(outcome.declarations) :
          /\ outcome.declarations[i] =
                [name |-> "b", optional |-> TRUE, readonly |-> FALSE, type_ |-> "string"]
          /\ outcome.declarations[j] =
                [name |-> "x", optional |-> FALSE, readonly |-> TRUE, type_ |-> "any"]
==========================================================================
